---- MODULE Spec2Model ----
(***************************************************************************)
(* Company record fusion and registry enrichment (scraper.py, utils.py).  *)
(*                                                                         *)
(* Five specifications share this module:                                  *)
(*   SpecMerge  CompanyData.merge_with applied, any number of times, to    *)
(*              records drawn from a bounded pool (the merge as a          *)
(*              function of its two arguments);                            *)
(*   Spec       one run of scrape_companies: the agent response is turned  *)
(*              into drafts (extract_companies_from_response) and the      *)
(*              drafts go through enrich_with_rusprofile, one registry     *)
(*              lookup (RusprofileParser.get_premium_data) at a time;      *)
(*   SpecSession  one RusprofileParser: its construction, which restores   *)
(*              the session cache (_load_session), its login() and         *)
(*              get_premium_data calls, and the cache ageing;              *)
(*   SpecUtils  the pure functions (validate_inn, validate_russian_phone,  *)
(*              extract_phones_from_text, clean_company_name, the field    *)
(*              extractor) applied to inputs drawn from bounded sets;      *)
(*   SpecStore  the companies table under upsert_company and               *)
(*              delete_company (database.py).                              *)
(*                                                                         *)
(* Strings the code inspects character by character (tax ids, phones,      *)
(* e-mails, names) are sequences of one-character strings; strings the     *)
(* code only tests for emptiness and copies are TLA+ strings.              *)
(***************************************************************************)
EXTENDS Integers, Sequences, FiniteSets, TLC

VARIABLES
    \* ---- SpecMerge: one primary record and the merges applied to it
    primary,        \* the record merge_with is called on (self), mutated in place
    original,       \* primary as it was constructed, before any merge
    secondary,      \* the argument (other) of the last merge_with call
    before,         \* primary as it was when the last merge_with call started
    mstatus,        \* "new" | "returned" | "raised": how the last call ended
    ncalls,         \* merge_with calls made so far
    nreturned,      \* merge_with calls that returned (did not raise)
    \* ---- Spec: one scrape_companies run
    response,       \* the agent's answer, as the regexes and json.loads see it
    max_results,    \* scrape_companies' max_results argument
    enrich,         \* scrape_companies' enrich argument
    companies,      \* the draft objects, by position; enrich mutates them in place
    drafts0,        \* the drafts as extract_companies_from_response built them
    enriched,       \* enrich's output list: references (positions) into companies
    idx,            \* number of drafts the enrich loop has taken up
    pc,             \* "extract" | "lookup" | "sleep" | "returned" | "raised"
    result,         \* what scrape_companies returned: references into companies
    email,          \* RusprofileParser.email (configured credential identity)
    password,       \* RusprofileParser.password
    session_file,   \* the pickled session cache: [kind, email, age, cookies]
    cookies,        \* the cookie set of the requests session
    is_logged_in,   \* RusprofileParser.is_logged_in
    premium,        \* what the last get_premium_data call returned: <<>> (None) or <<record>>
    outcomes,       \* per draft taken up: how its lookup and its login() call ended
    requests,       \* the requests the last get_premium_data call made, in order
    sleeps,         \* time.sleep(1) calls completed
    \* ---- SpecSession: what the last RusprofileParser call did
    last,           \* the call, the state it found and what it returned
    nlogins,        \* login() calls made so far
    \* ---- SpecUtils: one application of a pure function
    ucall,          \* [fn, arg, out, again, trace]: the function, its argument, its result
    \* ---- SpecStore: the companies table
    table,          \* the rows: [id, cols]
    serial          \* the next value of the id sequence

mvars == <<primary, original, secondary, before, mstatus, ncalls, nreturned>>
pvars == <<response, max_results, enrich, companies, drafts0, enriched, idx, pc,
           result, email, password, session_file, cookies, is_logged_in, premium,
           outcomes, requests, sleeps>>
xvars == <<last, nlogins, ucall>>
dvars == <<table, serial>>
vars == <<mvars, pvars, xvars, dvars>>

-----------------------------------------------------------------------------
(* Bounds of the model *)

MaxMerges == 2      \* merge_with calls per behaviour of SpecMerge
MaxDrafts == 2      \* longest list of candidates in an agent response

-----------------------------------------------------------------------------
(* Generic helpers *)

Range(s) == {s[k] : k \in 1..Len(s)}

SeqsUpTo(S, n) == UNION {[1..k -> S] : k \in 0..n}

\* Every sequence that lists the elements of S exactly once: the orders in
\* which iterating a Python set can deliver them.
SetOrders(S) == {s \in [1..Cardinality(S) -> S] : Range(s) = S}

NoDup(s) == \A a, b \in 1..Len(s) : s[a] = s[b] => a = b

\* First-appearance de-duplication: "if x not in validated: validated.append(x)".
RECURSIVE Dedup(_)
Dedup(s) ==
    IF s = <<>> THEN <<>>
    ELSE LET d == Dedup(SubSeq(s, 1, Len(s) - 1))
             x == s[Len(s)]
         IN  IF x \in Range(d) THEN d ELSE Append(d, x)

-----------------------------------------------------------------------------
(* CompanyData: the record schema, scraper.py:54-88 *)

\* The dataclass fields in declaration order, which is the order in which
\* merge_with visits them (self.__dataclass_fields__).
FieldOrder ==
    << "inn", "ogrn", "kpp", "short_name", "full_name", "status",
       "legal_address", "region", "director_name", "director_position",
       "registration_date", "okved_main", "okved_main_name",
       "authorized_capital", "revenue", "profit", "employees_count",
       "phones", "emails", "website", "okpo", "oktmo", "tax_system",
       "msp_category", "government_contracts_count",
       "government_contracts_sum", "court_cases_plaintiff",
       "court_cases_defendant", "founders", "source_url", "parsed_at",
       "data_source" >>

Fields == Range(FieldOrder)

FieldIndices == [f \in Fields |-> CHOOSE k \in 1..Len(FieldOrder) : FieldOrder[k] = f]

FieldIndex(f) == FieldIndices[f]

ListFields == {"phones", "emails", "founders"}
IntFields == {"government_contracts_count", "court_cases_plaintiff",
              "court_cases_defendant"}
\* str fields whose characters the code looks at: modelled as character sequences
CharFields == {"inn", "short_name"}
ScalarFields == Fields \ ListFields

\* CompanyData(): every field at its dataclass default.
DefaultOf(f) ==
    IF f \in ListFields \/ f \in CharFields THEN <<>>
    ELSE IF f \in IntFields THEN 0
    ELSE ""

CompanyData == [f \in Fields |-> DefaultOf(f)]

\* CompanyData(**kw): the defaults with the fields of kw set.
With(rec, kw) == [f \in Fields |-> IF f \in DOMAIN kw THEN kw[f] ELSE rec[f]]

\* Python truthiness of a field value: "", [] and 0 are falsy.
Truthy(f, v) == v # DefaultOf(f)

\* hash(x) raises TypeError for a dict: the entries of founders (List[Dict]).
HashableElems(f) == f # "founders"

-----------------------------------------------------------------------------
(* CompanyData.merge_with, scraper.py:93-108 *)

\* A faulty loop body: secondary's value wins whenever it is non-empty.
MergeField_overwrite(f, sv, ov, ord) ==
    IF Truthy(f, ov) THEN ov
    ELSE IF f \in ListFields THEN ord
    ELSE sv

\* A faulty loop body: a list is replaced by secondary's when that is not empty.
MergeField_lists_replaced(f, sv, ov, ord) ==
    IF Truthy(f, ov) /\ (f \in ListFields \/ ~Truthy(f, sv)) THEN ov
    ELSE IF f \in ListFields THEN ord
    ELSE sv

\* The loop body for one field, lines 96-105. ord is the order in which
\* list(set(...)) delivers the union for that field.
MergeField(f, sv, ov, ord) ==
    IF ~Truthy(f, sv) /\ Truthy(f, ov) THEN ov
    ELSE IF f \in ListFields THEN ord
    ELSE sv

\* set(self_val + other_val) raises TypeError when an element is unhashable.
FieldRaises(f, sv, ov) ==
    /\ ~(~Truthy(f, sv) /\ Truthy(f, ov))
    /\ f \in ListFields
    /\ ~HashableElems(f)
    /\ sv \o ov # <<>>

\* Position in FieldOrder of the first field whose loop body raises, 0 if none.
RaiseAt(self, other) ==
    LET bad == {k \in 1..Len(FieldOrder) :
                    FieldRaises(FieldOrder[k], self[FieldOrder[k]], other[FieldOrder[k]])}
    IN  IF bad = {} THEN 0 ELSE CHOOSE k \in bad : \A j \in bad : k <= j

\* The orders list(set(self_val + other_val)) can produce, per list field.
UnionOrders(self, other) ==
    {[phones |-> a, emails |-> b, founders |-> c] :
        a \in SetOrders(Range(self["phones"] \o other["phones"])),
        b \in SetOrders(Range(self["emails"] \o other["emails"])),
        c \in SetOrders(Range(self["founders"] \o other["founders"]))}

\* A faulty merge_with: line 107 is missing, the provenance is merged like any
\* other field.
merge_with_keep_source(self, other, ord) ==
    LET at == RaiseAt(self, other)
        looped == [f \in Fields |->
                     IF at = 0 \/ FieldIndex(f) < at
                     THEN MergeField(f, self[f], other[f],
                                     IF f \in ListFields THEN ord[f] ELSE <<>>)
                     ELSE self[f]]
    IN  [rec |-> looped, raised |-> at # 0]

\* merge_with(self, other) under one choice of set orders: the record self has
\* become and whether the call raised. Fields before the raising one are
\* already written, the later ones and data_source are not reached.
merge_with(self, other, ord) ==
    LET at == RaiseAt(self, other)
        looped == [f \in Fields |->
                     IF at = 0 \/ FieldIndex(f) < at
                     THEN MergeField(f, self[f], other[f],
                                     IF f \in ListFields THEN ord[f] ELSE <<>>)
                     ELSE self[f]]
    IN  [rec |-> IF at = 0 THEN [looped EXCEPT !["data_source"] = "merged"] ELSE looped,
         raised |-> at # 0]

-----------------------------------------------------------------------------
(* SpecMerge: merge_with on records of a bounded pool *)

Phone1 == <<"+", "7", "8", "4", "6", "1", "2", "3", "4", "5", "6", "7">>
Phone2 == <<"+", "7", "8", "4", "6", "9", "8", "7", "6", "5", "4", "3">>
Email1 == <<"a", "@", "x">>
Email2 == <<"b", "@", "x">>
Founder1 == [name |-> "founder"]

\* Records that differ in their scalar fields: a string field (revenue) and an
\* integer field, each empty or holding one of two values, and the provenance.
\* CompanyData() itself is among them.
ScalarVariants ==
    {With(CompanyData, [revenue |-> v[1], government_contracts_count |-> v[2],
                        data_source |-> d]) :
        v \in {<<"", 0>>, <<"5 mln", 1>>, <<"7 mln", 2>>},
        d \in {"", "agent", "rusprofile"}}

\* Records that differ in their list fields: every combination of empty and
\* non-empty phones, emails and founders. source_url, a field merge_with
\* visits after founders, is set in the records without founders.
EmptinessVariants ==
    {With(CompanyData, [phones |-> p, emails |-> e, founders |-> fo,
                        source_url |-> IF fo = <<>> THEN "url" ELSE "",
                        data_source |-> "agent"]) :
        p \in {<<>>, <<Phone1>>}, e \in {<<>>, <<Email1>>}, fo \in {<<>>, <<Founder1>>}}

\* Records with longer phones lists: both orders, and a repeated entry.
PhoneVariants ==
    {With(CompanyData, [phones |-> p, data_source |-> "agent"]) :
        p \in {<<Phone2>>, <<Phone1, Phone2>>, <<Phone2, Phone1>>, <<Phone1, Phone1>>}}

RecordPool == ScalarVariants \cup EmptinessVariants \cup PhoneVariants

\* No RusprofileParser call observed, no validator applied.
NoCall == [op |-> "none"]
NoApply == [fn |-> "none"]

\* The companies table is empty and its id sequence has not been used.
IdleStore == table = {} /\ serial = 1

IdleExtra == last = NoCall /\ nlogins = 0 /\ ucall = NoApply /\ IdleStore

IdlePipeline ==
    /\ response = <<>> /\ max_results = 0 /\ enrich = FALSE
    /\ companies = <<>> /\ drafts0 = <<>> /\ enriched = <<>> /\ idx = 0
    /\ pc = "idle" /\ result = <<>> /\ email = "" /\ password = ""
    /\ session_file = <<>> /\ cookies = "" /\ is_logged_in = FALSE
    /\ premium = <<>> /\ outcomes = <<>> /\ requests = <<>> /\ sleeps = 0

InitMerge ==
    /\ primary \in RecordPool
    /\ original = primary
    /\ secondary = CompanyData
    /\ before = primary
    /\ mstatus = "new"
    /\ ncalls = 0
    /\ nreturned = 0
    /\ IdlePipeline
    /\ IdleExtra

\* primary.merge_with(other): returns primary, or raises part-way through.
Merge ==
    /\ ncalls < MaxMerges
    /\ \E other \in RecordPool :
         \E ord \in UnionOrders(primary, other) :
            LET m == merge_with(primary, other, ord)
            IN  /\ primary' = m.rec
                /\ original' = original
                /\ secondary' = other
                /\ before' = primary
                /\ mstatus' = IF m.raised THEN "raised" ELSE "returned"
                /\ ncalls' = ncalls + 1
                /\ nreturned' = IF m.raised THEN nreturned ELSE nreturned + 1
    /\ UNCHANGED <<pvars, xvars, dvars>>

NextMerge == Merge

SpecMerge == InitMerge /\ [][NextMerge]_vars

-----------------------------------------------------------------------------
(* Properties of merge_with, checked under SpecMerge *)

\* The field values f for which Python's "not primary.f and secondary.f" held
\* when the last call started.
AdoptCase(f) == ~Truthy(f, before[f]) /\ Truthy(f, secondary[f])

\* C1: for every field but the provenance, if primary's value was empty and
\* secondary's non-empty, then after merge(primary, secondary) primary's value
\* equals secondary's.
C1_EmptyFieldAdoptsSecondary ==
    ncalls > 0 =>
        \A f \in Fields \ {"data_source"} :
            AdoptCase(f) => primary[f] = secondary[f]

\* C2: a scalar field other than the provenance that is non-empty before a
\* merge has the same value after it, whatever secondary holds, and keeps the
\* value it was constructed with over all the merges into the same primary.
C2_NonEmptyScalarKept ==
    \A f \in ScalarFields \ {"data_source"} :
        /\ Truthy(f, before[f]) => primary[f] = before[f]
        /\ Truthy(f, original[f]) => primary[f] = original[f]

C2_Witness ==
    /\ ncalls = MaxMerges
    /\ mstatus = "returned"
    /\ Truthy("revenue", original["revenue"])
    /\ Truthy("revenue", secondary["revenue"])
    /\ secondary["revenue"] # primary["revenue"]
    /\ Truthy("government_contracts_count", before["government_contracts_count"])
    /\ secondary["government_contracts_count"] # primary["government_contracts_count"]

\* C3: after merge(primary, secondary) the elements of each of phones, emails
\* and founders are the union of primary's and secondary's elements before the
\* merge, and the merge does not raise, whichever of the lists are empty.
C3_ListsBecomeUnionWithoutRaising ==
    ncalls > 0 =>
        /\ mstatus = "returned"
        /\ \A f \in ListFields :
              Range(primary[f]) = Range(before[f]) \cup Range(secondary[f])

\* C4: once a merge into a record has returned, the record's provenance is
\* "merged", whatever the two provenances were, and it is "merged" after
\* every later merge into that record.
C4_ProvenanceMergedForGood ==
    nreturned > 0 => primary["data_source"] = "merged"

C4_Witness ==
    /\ ncalls = MaxMerges
    /\ nreturned = MaxMerges
    /\ original["data_source"] = "agent"
    /\ before["data_source"] = "merged"
    /\ secondary["data_source"] = "rusprofile"

\* C5: merge(A, CompanyData()) leaves every field of A as it was, the lists
\* with the same elements in the same order, except that the provenance
\* becomes "merged".
C5_EmptySecondaryChangesNothing ==
    (ncalls > 0 /\ secondary = CompanyData) =>
        /\ mstatus = "returned"
        /\ \A f \in Fields \ {"data_source"} : primary[f] = before[f]
        /\ primary["data_source"] = "merged"

-----------------------------------------------------------------------------
(* Validators, utils.py *)

Digits == {"0", "1", "2", "3", "4", "5", "6", "7", "8", "9"}

IsDigit(c) == c \in Digits

\* re.sub(r'\D', '', s)
StripNonDigits(s) == SelectSeq(s, IsDigit)

\* A faulty validate_russian_phone: lines 31-32 are missing, a leading 8 is
\* accepted as it is.
validate_russian_phone_trunk_kept(phone) ==
    LET digits == StripNonDigits(phone)
    IN  IF phone = <<>> THEN <<>>
        ELSE IF Len(digits) # 11 THEN <<>>
        ELSE IF digits[1] # "8" /\ digits[1] # "7" THEN <<>>
        ELSE IF digits[2] \notin {"3", "4", "5", "6", "7", "8", "9"} THEN <<>>
        ELSE <<"+">> \o digits

\* validate_russian_phone, utils.py:8-40: <<>> stands for None.
validate_russian_phone(phone) ==
    LET digits == StripNonDigits(phone)
        digits7 == IF digits[1] = "8" THEN <<"7">> \o Tail(digits) ELSE digits
    IN  IF phone = <<>> THEN <<>>
        ELSE IF Len(digits) # 11 THEN <<>>
        ELSE IF digits[1] # "8" /\ digits[1] # "7" THEN <<>>
        ELSE IF digits7[2] \notin {"3", "4", "5", "6", "7", "8", "9"} THEN <<>>
        ELSE <<"+">> \o digits7

\* A faulty validate_inn: line 95 is missing, so the length and isdigit()
\* tests see the string as it was passed.
validate_inn_unstripped(inn) ==
    IF inn = <<>> THEN FALSE
    ELSE IF Len(inn) \notin {10, 12} THEN FALSE
    ELSE \A k \in 1..Len(inn) : IsDigit(inn[k])

\* validate_inn, utils.py:86-105. After re.sub(r'\D', ...) only digits are
\* left, so the isdigit() test of line 102 cannot fail.
validate_inn(inn) ==
    LET digits == StripNonDigits(inn)
    IN  IF inn = <<>> THEN FALSE
        ELSE IF Len(digits) \notin {10, 12} THEN FALSE
        ELSE TRUE

Whitespace == {" ", "\t"}

\* re.sub(r'\s+', ' ', name): every run of whitespace becomes one space.
RECURSIVE CollapseWhitespace(_)
CollapseWhitespace(s) ==
    IF s = <<>> THEN <<>>
    ELSE IF s[1] \in Whitespace
         THEN IF Len(s) > 1 /\ s[2] \in Whitespace
              THEN CollapseWhitespace(Tail(s))
              ELSE <<" ">> \o CollapseWhitespace(Tail(s))
         ELSE <<s[1]>> \o CollapseWhitespace(Tail(s))

\* str.strip()
RECURSIVE Strip(_)
Strip(s) ==
    IF s = <<>> THEN <<>>
    ELSE IF s[1] \in Whitespace THEN Strip(Tail(s))
    ELSE IF s[Len(s)] \in Whitespace THEN Strip(SubSeq(s, 1, Len(s) - 1))
    ELSE s

\* clean_company_name, utils.py:108-122
clean_company_name(name) ==
    IF name = <<>> THEN <<>>
    ELSE SelectSeq(Strip(CollapseWhitespace(name)), LAMBDA c : c \notin {"\"", "'"})

\* str.lower(), on the letters the model's inputs use.
LowerChar(c) ==
    CASE c = "A" -> "a"
      [] c = "B" -> "b"
      [] c = "X" -> "x"
      [] OTHER -> c

Lower(s) == [k \in 1..Len(s) |-> LowerChar(s[k])]

EndsWith(s, suffix) ==
    /\ Len(s) >= Len(suffix)
    /\ SubSeq(s, Len(s) - Len(suffix) + 1, Len(s)) = suffix

ImageSuffixes == {<<".", "p", "n", "g">>, <<".", "j", "p", "g">>, <<".", "g", "i", "f">>}

\* [\s\-]
Separators == Whitespace \cup {"-"}

\* One optional character of class cls at position i of s: the position after it.
Opt(s, i, cls) == IF i <= Len(s) /\ s[i] \in cls THEN i + 1 ELSE i

\* One character of class cls at position i: the position after it, 0 if the
\* match has failed (i = 0) or fails here.
One(s, i, cls) == IF i # 0 /\ i <= Len(s) /\ s[i] \in cls THEN i + 1 ELSE 0

\* \d{n} at position i.
DigitRun(s, i, n) ==
    IF i # 0 /\ i + n - 1 <= Len(s) /\ (\A k \in i..(i + n - 1) : IsDigit(s[k]))
    THEN i + n ELSE 0

\* Opt after a part that may have failed.
Then(s, i, cls) == IF i = 0 THEN 0 ELSE Opt(s, i, cls)

\* The first pattern of utils.py:50 matched at position i of s: the position
\* after the match, 0 if there is none. Every optional part is a character
\* the part after it cannot start with, so taking it when it is there is
\* what the regex engine ends up doing.
MatchGrouped(s, i) ==
    LET p1 == One(s, Opt(s, i, {"+"}), {"7", "8"})
        p2 == DigitRun(s, Then(s, Then(s, p1, Separators), {"("}), 3)
        p3 == DigitRun(s, Then(s, Then(s, p2, {")"}), Separators), 3)
        p4 == DigitRun(s, Then(s, p3, Separators), 2)
    IN  DigitRun(s, Then(s, p4, Separators), 2)

\* The second pattern, utils.py:51, matched at position i.
MatchBare(s, i) == DigitRun(s, One(s, Opt(s, i, {"+"}), {"7", "8"}), 10)

MatchAt(pattern, s, i) ==
    IF pattern = "grouped" THEN MatchGrouped(s, i) ELSE MatchBare(s, i)

\* The matches of a pattern in s from position i on, leftmost first and not
\* overlapping, each with the position it starts at.
RECURSIVE finditer(_, _, _)
finditer(pattern, s, i) ==
    IF i > Len(s) THEN <<>>
    ELSE LET after == MatchAt(pattern, s, i)
         IN  IF after = 0 THEN finditer(pattern, s, i + 1)
             ELSE <<[pos |-> i, str |-> SubSeq(s, i, after - 1)]>>
                  \o finditer(pattern, s, after)

\* re.findall(pattern, text), utils.py:56.
findall(pattern, s) ==
    LET found == finditer(pattern, s, 1) IN [k \in 1..Len(found) |-> found[k].str]

\* What the loop of utils.py:55-57 finds in a text.
PhoneMatches(s) ==
    [phones_grouped |-> findall("grouped", s), phones_bare |-> findall("bare", s)]

\* The loop of utils.py:60-64 over the matches found so far.
RECURSIVE ValidatedPhones(_)
ValidatedPhones(matches) ==
    IF matches = <<>> THEN <<>>
    ELSE LET validated == ValidatedPhones(SubSeq(matches, 1, Len(matches) - 1))
             normalized == validate_russian_phone(matches[Len(matches)])
         IN  IF normalized # <<>> /\ normalized \notin Range(validated)
             THEN Append(validated, normalized)
             ELSE validated

\* extract_phones_from_text, utils.py:43-66. A text is given by what
\* re.findall returns on it for each of the two patterns.
extract_phones_from_text(text) ==
    ValidatedPhones(text.phones_grouped \o text.phones_bare)

\* The loop of utils.py:78-81.
RECURSIVE ValidatedEmails(_)
ValidatedEmails(matches) ==
    IF matches = <<>> THEN <<>>
    ELSE LET validated == ValidatedEmails(SubSeq(matches, 1, Len(matches) - 1))
             lowered == Lower(matches[Len(matches)])
         IN  IF lowered \notin Range(validated)
                /\ \A suffix \in ImageSuffixes : ~EndsWith(lowered, suffix)
             THEN Append(validated, lowered)
             ELSE validated

\* extract_emails_from_text, utils.py:69-83.
extract_emails_from_text(text) == ValidatedEmails(text.emails)

-----------------------------------------------------------------------------
(* CompanyFinderAgent.extract_companies_from_response, scraper.py:458-501 *)

\* comp.get(key, default)
Get(comp, key, default) == IF key \in DOMAIN comp THEN comp[key] ELSE default

\* [validate_russian_phone(p) for p in phones if validate_russian_phone(p)]
RECURSIVE ValidPhonesOf(_)
ValidPhonesOf(phones) ==
    IF phones = <<>> THEN <<>>
    ELSE LET p == validate_russian_phone(phones[1])
         IN  (IF p # <<>> THEN <<p>> ELSE <<>>) \o ValidPhonesOf(Tail(phones))

\* The keyword arguments of lines 469-486 that are copied with comp.get(k, '').
CopiedKeys == {"ogrn", "full_name", "legal_address", "region", "website",
               "director_name", "okved_main", "okved_main_name", "status",
               "registration_date", "source_url"}

\* CompanyData(...) of lines 469-486.
DraftOf(comp) ==
    [f \in Fields |->
        CASE f = "inn" -> Get(comp, "inn", <<>>)
          [] f = "short_name" -> clean_company_name(Get(comp, "short_name", <<>>))
          [] f = "phones" -> ValidPhonesOf(Get(comp, "phones", <<>>))
          [] f = "emails" -> Get(comp, "emails", <<>>)
          [] f = "data_source" -> "agent"
          [] f \in CopiedKeys -> Get(comp, f, "")
          [] OTHER -> DefaultOf(f)]

\* A faulty loop: the test of line 487 is missing, every candidate is appended.
DraftsOfJson_unfiltered(comps) == [k \in 1..Len(comps) |-> DraftOf(comps[k])]

\* Lines 468-490: the candidates whose inn is present and valid, in order.
RECURSIVE DraftsOfJson(_)
DraftsOfJson(comps) ==
    IF comps = <<>> THEN <<>>
    ELSE LET company == DraftOf(comps[1])
         IN  (IF company["inn"] # <<>> /\ validate_inn(company["inn"])
              THEN <<company>> ELSE <<>>) \o DraftsOfJson(Tail(comps))

\* Lines 496-499: one bare draft per valid tax id found in the text, once each.
RECURSIVE DraftsOfText(_)
DraftsOfText(inn_matches) ==
    IF inn_matches = <<>> THEN <<>>
    ELSE LET found == DraftsOfText(SubSeq(inn_matches, 1, Len(inn_matches) - 1))
             inn == inn_matches[Len(inn_matches)]
         IN  IF validate_inn(inn) /\ \A k \in 1..Len(found) : found[k]["inn"] # inn
             THEN Append(found, With(CompanyData, [inn |-> inn, data_source |-> "agent"]))
             ELSE found

\* A response is given by what the code reads from it: whether the ```json
\* block is there ("none" if not), whether json.loads accepts it ("invalid" if
\* not), whether the object has the key 'companies' ("nokey" if not), the list
\* under that key, and what re.findall returns for the tax id pattern.
extract_companies_from_response(resp) ==
    IF resp.json = "ok" THEN DraftsOfJson(resp.comps)
    ELSE DraftsOfText(resp.inn_matches)

-----------------------------------------------------------------------------
(* RusprofileParser, scraper.py:115-381 *)

SESSION_MAX_AGE_HOURS == 128

NoFile == [kind |-> "none", email |-> "", age |-> 0, cookies |-> ""]

\* _load_session, scraper.py:143-158: whether the pickled session is taken
\* over. age is the whole number of hours since the file's timestamp; a file
\* that cannot be unpickled ("corrupt") ends in the bare except.
_load_session(file, em) ==
    IF file.kind # "session" THEN FALSE
    ELSE IF file.age > SESSION_MAX_AGE_HOURS THEN FALSE
    ELSE IF file.email # em THEN FALSE
    ELSE TRUE

\* One request of the requests session and whether it gave a response
\* (ok = FALSE: timeout, connection error or, for _fetch, an HTTP error status).
Req(name, ok) == [req |-> name, ok |-> ok]

\* _save_session, scraper.py:131-141: the content of the session cache after
\* a write: the cookie set, the time of the write (age 0) and the identity.
_save_session(em, ck) == [kind |-> "session", email |-> em, age |-> 0, cookies |-> ck]

\* A faulty return: is_logged_in is set to the result of the call, so a failed
\* login clears it.
LoginReturn_flag_follows_result(ok, logged, reqs) ==
    [ok |-> ok, logged |-> ok, save_called |-> FALSE, saved |-> FALSE,
     raised |-> FALSE, requests |-> reqs]

\* What a login() call gives: the value returned, the new is_logged_in,
\* whether _save_session was called and whether its write went through,
\* whether the call raised, and the requests it made.
LoginReturn(ok, logged, reqs) ==
    [ok |-> ok, logged |-> logged, save_called |-> FALSE, saved |-> FALSE,
     raised |-> FALSE, requests |-> reqs]

\* A faulty success branch: line 198 is missing, the session is not saved.
login_success_unsaved(net) ==
    LoginReturn(TRUE, TRUE, <<Req("root", TRUE), Req("post", TRUE)>>)

\* Lines 196-200: the response carries a logout marker.
login_success(net) ==
    [ok |-> TRUE, logged |-> TRUE, save_called |-> TRUE, saved |-> net.save = "ok",
     raised |-> FALSE, requests |-> <<Req("root", TRUE), Req("post", TRUE)>>]

\* Lines 172-204 of login: the interactive authentication, under the network
\* answers net:
\*   net.root   "fail" | "ok"                   the GET of BASE_URL (_fetch)
\*   net.post   "raise" | "denied" | "logout"  the POST: raises, or answers
\*                                              without / with a logout marker
\*   net.save   "fail" | "ok"                  _save_session's file write
\*   net.fault  "login" when lines 182-192, which no handler covers, raise
authenticate(logged, em, pw, net) ==
    IF em = "" \/ pw = "" THEN LoginReturn(FALSE, logged, <<>>)
    ELSE IF net.root = "fail" THEN LoginReturn(FALSE, logged, <<Req("root", FALSE)>>)
    ELSE IF net.fault = "login"
        THEN [LoginReturn(FALSE, logged, <<Req("root", TRUE)>>) EXCEPT !.raised = TRUE]
    ELSE IF net.post = "raise"
        THEN LoginReturn(FALSE, logged, <<Req("root", TRUE), Req("post", FALSE)>>)
    ELSE IF net.post = "logout" THEN login_success(net)
    ELSE LoginReturn(FALSE, logged, <<Req("root", TRUE), Req("post", TRUE)>>)

\* A faulty login: the early return of lines 170-171 is missing.
login_without_early_return(force, logged, em, pw, net) ==
    authenticate(logged, em, pw, net)

\* login(force), scraper.py:169-204.
login(force, logged, em, pw, net) ==
    IF logged /\ ~force THEN LoginReturn(TRUE, logged, <<>>)
    ELSE authenticate(logged, em, pw, net)

\* A fetched document is given by what BeautifulSoup and the regexes find in it:
\*   canonical  "none" | "other" | "id": <link rel=canonical>, href with '/id/'
\*   link       "none" | "relative" | "absolute": first <a href=".../id/<n>">
\*   found      field -> value, for the fields whose rule is one labelled
\*              pattern: the value the rule stores when its pattern matches
\*   h1         text of the first <h1>
\*   active, liquidated   whether the marker phrases occur
\*   revenue_year, revenue_plain   re.search of the two revenue patterns:
\*              <<>> for no match, else <<stripped group 1>> ("" when blank)
\*   phones_grouped, phones_bare, emails   re.findall of the contact patterns
DetailUrl == "https://www.rusprofile.ru/id/1"

\* A faulty status rule: the liquidated marker is looked for first.
status_rule_liquidated_first(doc) ==
    IF doc.liquidated THEN "Likvidirovana"
    ELSE IF doc.active THEN "Deystvuyushchaya"
    ELSE ""

\* The status rule, scraper.py:261-264: the active marker first, the
\* liquidated marker only when the active one does not occur.
status_rule(doc) ==
    IF doc.active THEN "Deystvuyushchaya"
    ELSE IF doc.liquidated THEN "Likvidirovana"
    ELSE ""

\* A pattern's match gives a value when group 1 is not blank (line 303).
NotBlank(m) == m # <<>> /\ m[1] # ""

RevenueReturn(value, consulted) == [value |-> value, consulted |-> consulted]

\* A faulty revenue rule: the generic pattern is tried first.
revenue_rule_generic_first(doc) ==
    IF NotBlank(doc.revenue_plain) THEN RevenueReturn(doc.revenue_plain[1], <<"plain">>)
    ELSE IF NotBlank(doc.revenue_year)
         THEN RevenueReturn(doc.revenue_year[1], <<"plain", "year">>)
    ELSE RevenueReturn("", <<"plain", "year">>)

\* The revenue rule, scraper.py:297-305: the patterns are searched in order,
\* the first whose group 1 is not blank gives the value and ends the loop.
\* Gives the value stored and the patterns searched.
revenue_rule(doc) ==
    IF NotBlank(doc.revenue_year) THEN RevenueReturn(doc.revenue_year[1], <<"year">>)
    ELSE IF NotBlank(doc.revenue_plain)
         THEN RevenueReturn(doc.revenue_plain[1], <<"year", "plain">>)
    ELSE RevenueReturn("", <<"year", "plain">>)

\* _parse_premium_fields, scraper.py:239-381.
_parse_premium_fields(doc, source_url) ==
    [f \in Fields |->
        CASE f = "source_url" -> source_url
          [] f = "data_source" -> "rusprofile"
          [] f = "parsed_at" -> "now"
          [] f = "short_name" -> clean_company_name(doc.h1)
          [] f = "status" -> status_rule(doc)
          [] f = "revenue" -> revenue_rule(doc).value
          [] f = "phones" -> extract_phones_from_text(doc)
          [] f = "emails" -> extract_emails_from_text(doc)
          [] f \in DOMAIN doc.found -> doc.found[f]
          [] OTHER -> DefaultOf(f)]

\* get_premium_data, scraper.py:206-237, under the network answers net, which
\* add to those of login:
\*   net.search  "fail" | "ok"      the GET of the search URL
\*   net.search_doc                 the document it returns
\*   net.detail  "fail" | "ok"      the GET of the company page
\*   net.detail_doc                 the document it returns
\*   net.fault   "search_parse" when lines 219-232 raise, "extractor" when
\*               _parse_premium_fields raises
\* Gives the record returned (<<>> for None), how the lookup ended, whether it
\* raised, and what login did.
NoLogin == LoginReturn(FALSE, FALSE, <<>>)

\* A faulty lookup: the company page is fetched once more before it is parsed.
Lookup_result_page_refetched(data, how, lg, reqs) ==
    [data |-> data, how |-> how, raised |-> how = "raised", called_login |-> TRUE,
     login |-> lg,
     requests |-> lg.requests \o reqs
                    \o (IF how = "parsed" THEN <<Req("detail", TRUE)>> ELSE <<>>)]

\* The value of one get_premium_data call that got past line 208: reqs are
\* the requests made after login() returned.
Lookup_result(data, how, lg, reqs) ==
    [data |-> data, how |-> how, raised |-> how = "raised", called_login |-> TRUE,
     login |-> lg, requests |-> lg.requests \o reqs]

\* A faulty get_premium_data: the "if not link" test of line 228 is missing, so
\* link.get('href') raises on a result page without a company link.
get_premium_data_link_unchecked(inn, logged, em, pw, net) ==
    LET lg == login(FALSE, logged, em, pw, net)
        search == <<Req("search", TRUE)>>
        detail(ok) == <<Req("search", TRUE), Req("detail", ok)>>
    IN  IF inn = <<>> \/ ~validate_inn(inn)
            THEN [data |-> <<>>, how |-> "invalid_inn", raised |-> FALSE,
                  called_login |-> FALSE, login |-> NoLogin, requests |-> <<>>]
        ELSE IF lg.raised THEN Lookup_result(<<>>, "raised", lg, <<>>)
        ELSE IF net.search = "fail"
            THEN Lookup_result(<<>>, "search_failed", lg, <<Req("search", FALSE)>>)
        ELSE IF net.fault = "search_parse" THEN Lookup_result(<<>>, "raised", lg, search)
        ELSE IF net.search_doc.canonical = "id"
            THEN IF net.fault = "extractor" THEN Lookup_result(<<>>, "raised", lg, search)
                 ELSE Lookup_result(<<_parse_premium_fields(net.search_doc, DetailUrl)>>,
                                    "parsed", lg, search)
        ELSE IF net.search_doc.link = "none" THEN Lookup_result(<<>>, "raised", lg, search)
        ELSE IF net.detail = "fail"
            THEN Lookup_result(<<>>, "detail_failed", lg, detail(FALSE))
        ELSE IF net.fault = "extractor" THEN Lookup_result(<<>>, "raised", lg, detail(TRUE))
        ELSE Lookup_result(<<_parse_premium_fields(net.detail_doc, DetailUrl)>>,
                           "parsed", lg, detail(TRUE))

\* get_premium_data, scraper.py:206-237.
get_premium_data(inn, logged, em, pw, net) ==
    LET lg == login(FALSE, logged, em, pw, net)
        search == <<Req("search", TRUE)>>
        detail(ok) == <<Req("search", TRUE), Req("detail", ok)>>
    IN  IF inn = <<>> \/ ~validate_inn(inn)
            THEN [data |-> <<>>, how |-> "invalid_inn", raised |-> FALSE,
                  called_login |-> FALSE, login |-> NoLogin, requests |-> <<>>]
        ELSE IF lg.raised THEN Lookup_result(<<>>, "raised", lg, <<>>)
        ELSE IF net.search = "fail"
            THEN Lookup_result(<<>>, "search_failed", lg, <<Req("search", FALSE)>>)
        ELSE IF net.fault = "search_parse" THEN Lookup_result(<<>>, "raised", lg, search)
        ELSE IF net.search_doc.canonical = "id"
            THEN IF net.fault = "extractor" THEN Lookup_result(<<>>, "raised", lg, search)
                 ELSE Lookup_result(<<_parse_premium_fields(net.search_doc, DetailUrl)>>,
                                    "parsed", lg, search)
        ELSE IF net.search_doc.link = "none" THEN Lookup_result(<<>>, "not_found", lg, search)
        ELSE IF net.detail = "fail"
            THEN Lookup_result(<<>>, "detail_failed", lg, detail(FALSE))
        ELSE IF net.fault = "extractor" THEN Lookup_result(<<>>, "raised", lg, detail(TRUE))
        ELSE Lookup_result(<<_parse_premium_fields(net.detail_doc, DetailUrl)>>,
                           "parsed", lg, detail(TRUE))

-----------------------------------------------------------------------------
(* Inputs of a run: agent responses, registry documents, network answers *)

Inn10 == <<"7", "7", "1", "2", "3", "4", "5", "6", "7", "8">>
Inn12 == <<"7", "7", "1", "2", "3", "4", "5", "6", "7", "8", "9", "0">>
Inn9 == <<"7", "7", "1", "2", "3", "4", "5", "6", "7">>
Inn11 == <<"7", "7", "1", "2", "3", "4", "5", "6", "7", "8", "9">>
\* "7712-345-678": ten digits and two dashes.
InnDashed == <<"7", "7", "1", "2", "-", "3", "4", "5", "-", "6", "7", "8">>

\* "8 (846) 123-45-67" and "+7 846 123-45-67" are the same number, Phone1.
RawPhoneTrunk == <<"8", " ", "(", "8", "4", "6", ")", " ", "1", "2", "3", "-", "4", "5", "-", "6", "7">>
RawPhonePlus == <<"+", "7", " ", "8", "4", "6", " ", "1", "2", "3", "-", "4", "5", "-", "6", "7">>
RawPhoneOther == <<"+", "7", "(", "8", "4", "6", ")", "9", "8", "7", "-", "6", "5", "-", "4", "3">>
RawPhoneShort == <<"1", "2", "3">>
EmailUpper == <<"A", "@", "X">>
EmailImage == <<"a", "@", "x", ".", "p", "n", "g">>

\* The candidates an agent response can list.
CompRich ==
    [inn |-> Inn10, short_name |-> <<"\"", "A", " ", " ", "B", "\"">>,
     phones |-> <<RawPhoneTrunk, RawPhonePlus, RawPhoneShort>>,
     emails |-> <<EmailUpper, EmailUpper>>,
     website |-> "www.a.ru", legal_address |-> "Samara"]
CompBare == [inn |-> Inn12]
CompBadInn == [inn |-> Inn9, phones |-> <<RawPhoneOther>>]
CompDashed == [inn |-> InnDashed]
CompNoInn == [website |-> "www.b.ru"]

CompPool == {CompRich, CompBare, CompBadInn}

\* Candidate lists: every list over CompPool, and two with a candidate that
\* has dashes in its tax id or no tax id at all.
CandidateLists ==
    SeqsUpTo(CompPool, MaxDrafts) \cup {<<CompDashed>>, <<CompNoInn, CompDashed>>}

ResponsePool ==
    {[json |-> "ok", comps |-> c, inn_matches |-> <<>>] : c \in CandidateLists}
    \cup {[json |-> j, comps |-> <<>>, inn_matches |-> m] :
            j \in {"none", "invalid", "nokey"}, m \in SeqsUpTo({Inn10, Inn11}, MaxDrafts)}

NoResponse == [json |-> "consumed", comps |-> <<>>, inn_matches |-> <<>>]

NoDoc ==
    [canonical |-> "none", link |-> "none", found |-> <<>>, h1 |-> <<>>,
     active |-> FALSE, liquidated |-> FALSE, revenue_year |-> <<>>, revenue_plain |-> <<>>,
     phones_grouped |-> <<>>, phones_bare |-> <<>>, emails |-> <<>>]

\* The contact line of a company page.
PageText == RawPhoneOther \o <<" ">> \o RawPhoneTrunk

\* A company page: what the rules find on it.
CompanyContent ==
    [NoDoc EXCEPT !.found = [inn |-> Inn12, ogrn |-> "1027700132195",
                             employees_count |-> "15", government_contracts_count |-> 3],
                  !.h1 = <<"\"", "A", " ", " ", "B", "\"">>, !.active = TRUE, !.liquidated = TRUE,
                  !.revenue_year = <<"12 500 tys. rub">>, !.revenue_plain = <<"9 mln rub">>,
                  !.phones_grouped = PhoneMatches(PageText).phones_grouped,
                  !.phones_bare = PhoneMatches(PageText).phones_bare,
                  !.emails = <<EmailUpper, EmailImage, Email1>>]

\* The search URL answered with the company page itself, with a result list
\* that links to a company page, and with an empty result list.
DocDirectHit == [CompanyContent EXCEPT !.canonical = "id"]
DocResultList == [NoDoc EXCEPT !.canonical = "other", !.link = "relative"]
DocNoResults == NoDoc

\* Company pages reached through a link: a full one and one no rule matches.
DocCompany == [CompanyContent EXCEPT !.canonical = "id", !.link = "absolute"]
DocBlank == NoDoc
\* A company page whose tax id line carries eleven digits.
DocElevenDigits == [NoDoc EXCEPT !.found = [inn |-> Inn11]]

QuietNet ==
    [root |-> "ok", post |-> "denied", save |-> "ok", search |-> "ok",
     search_doc |-> DocNoResults, detail |-> "ok", detail_doc |-> DocBlank,
     fault |-> "none"]

\* What the site can answer to the requests of login().
LoginAnswers ==
    {[QuietNet EXCEPT !.root = "fail"],
     [QuietNet EXCEPT !.post = "raise"],
     [QuietNet EXCEPT !.post = "denied"],
     [QuietNet EXCEPT !.post = "logout", !.save = "ok"],
     [QuietNet EXCEPT !.post = "logout", !.save = "fail"],
     [QuietNet EXCEPT !.fault = "login"]}

\* What the site can answer to the search and company page requests.
LookupAnswers ==
    {[QuietNet EXCEPT !.search = "fail"],
     [QuietNet EXCEPT !.fault = "search_parse"],
     [QuietNet EXCEPT !.search_doc = DocDirectHit],
     [QuietNet EXCEPT !.search_doc = DocDirectHit, !.fault = "extractor"],
     [QuietNet EXCEPT !.search_doc = DocNoResults],
     [QuietNet EXCEPT !.search_doc = DocResultList, !.detail = "fail"],
     [QuietNet EXCEPT !.search_doc = DocResultList, !.detail_doc = DocCompany],
     [QuietNet EXCEPT !.search_doc = DocResultList, !.detail_doc = DocBlank],
     [QuietNet EXCEPT !.search_doc = DocResultList, !.detail_doc = DocElevenDigits]}

\* The answers to one get_premium_data call. The login answers matter only
\* when login() gets as far as a request.
Nets(logged, em, pw) ==
    {[k EXCEPT !.root = l.root, !.post = l.post, !.save = l.save,
               !.fault = IF l.fault # "none" THEN l.fault ELSE k.fault] :
        l \in IF logged \/ em = "" \/ pw = "" THEN {QuietNet} ELSE LoginAnswers,
        k \in LookupAnswers}

\* Configured credentials and the session cache found at start-up: nothing
\* configured and a cache left by another identity, credentials without a
\* cache, credentials with their own fresh cache.
CachedSession == [kind |-> "session", email |-> "user@x", age |-> 1, cookies |-> "cached"]

StartUps ==
    {[email |-> "", password |-> "", file |-> CachedSession],
     [email |-> "user@x", password |-> "secret", file |-> NoFile],
     [email |-> "user@x", password |-> "secret", file |-> CachedSession]}

-----------------------------------------------------------------------------
(* Spec: one scrape_companies run, scraper.py:532-604 *)

IdleMerge ==
    /\ primary = CompanyData /\ original = CompanyData /\ secondary = CompanyData
    /\ before = CompanyData /\ mstatus = "new" /\ ncalls = 0 /\ nreturned = 0

\* CompanyFinderAgent() has built its RusprofileParser, whose constructor
\* calls _load_session (lines 118-129, 550); the agent has answered.
Init ==
    /\ IdleMerge
    /\ IdleExtra
    /\ response \in ResponsePool
    /\ max_results \in 1..MaxDrafts
    /\ enrich \in BOOLEAN
    /\ \E start \in StartUps :
          email = start.email /\ password = start.password /\ session_file = start.file
    /\ is_logged_in = _load_session(session_file, email)
    /\ cookies = IF _load_session(session_file, email) THEN session_file.cookies ELSE ""
    /\ companies = <<>> /\ drafts0 = <<>> /\ enriched = <<>> /\ idx = 0
    /\ pc = "extract" /\ result = <<>>
    /\ premium = <<>> /\ outcomes = <<>> /\ requests = <<>>
    /\ sleeps = 0

Refs(n) == [k \in 1..n |-> k]

\* Lines 589-604: the drafts are extracted and cut to max_results; without
\* drafts, or with enrich off, scrape_companies returns here.
Extract ==
    /\ pc = "extract"
    /\ LET all == extract_companies_from_response(response)
           kept == SubSeq(all, 1, IF Len(all) < max_results THEN Len(all) ELSE max_results)
       IN  /\ companies' = kept
           /\ drafts0' = kept
           /\ IF all = <<>> THEN pc' = "returned" /\ result' = <<>>
              ELSE IF ~enrich THEN pc' = "returned" /\ result' = Refs(Len(kept))
              ELSE pc' = "lookup" /\ result' = result
    /\ response' = NoResponse
    /\ UNCHANGED <<max_results, enrich, enriched, idx, email, password, session_file,
                   cookies, is_logged_in, premium, outcomes, requests, sleeps>>
    /\ UNCHANGED <<mvars, xvars, dvars>>

LoginLabel(r) ==
    IF ~r.called_login THEN "none" ELSE IF r.login.raised THEN "raised"
    ELSE IF r.login.ok THEN "ok" ELSE "failed"

\* What is remembered of one pass: how the lookup ended ("invalid_inn",
\* "search_failed", "not_found", "detail_failed", "merged" or "raised"), what
\* login() returned, and the fault, if any, the environment put into the pass.
Outcome(how, r, net) == [lookup |-> how, login |-> LoginLabel(r), fault |-> net.fault]

\* A faulty append: only drafts that got registry data are output.
appended_if_merged(out, i, data) == IF data # <<>> THEN Append(out, i) ELSE out

\* Line 523: enriched.append(company), whatever the lookup gave.
appended(out, i, data) == Append(out, i)

\* A faulty loop body: the delay is skipped when the lookup gave no data.
after_append_delay_on_data_only(how) == IF how = "merged" THEN "sleep" ELSE "lookup"

\* Lines 525-527 follow line 523 on every path: time.sleep(1) is next.
after_append(how) == "sleep"

\* Lines 509-523: one pass of the loop of enrich_with_rusprofile up to
\* enriched.append(company). An exception leaves the loop and the function.
Lookup ==
    /\ pc = "lookup"
    /\ idx < Len(companies)
    /\ \E net \in Nets(is_logged_in, email, password) :
        LET i == idx + 1
            r == get_premium_data(companies[i]["inn"], is_logged_in, email, password, net)
            fresh == r.called_login /\ r.login.ok /\ ~is_logged_in
        IN  /\ idx' = i
            /\ premium' = r.data
            /\ requests' = r.requests
            /\ is_logged_in' = IF r.called_login THEN r.login.logged ELSE is_logged_in
            /\ cookies' = IF fresh THEN "fresh" ELSE cookies
            /\ session_file' = IF r.called_login /\ r.login.saved
                               THEN _save_session(email, "fresh")
                               ELSE session_file
            /\ IF r.raised
               THEN /\ pc' = "raised"
                    /\ outcomes' = Append(outcomes, Outcome("raised", r, net))
                    /\ UNCHANGED <<companies, enriched>>
               ELSE IF r.data = <<>>
               THEN /\ pc' = after_append(r.how)
                    /\ outcomes' = Append(outcomes, Outcome(r.how, r, net))
                    /\ enriched' = appended(enriched, i, r.data)
                    /\ UNCHANGED companies
               ELSE \E ord \in UnionOrders(companies[i], r.data[1]) :
                      LET m == merge_with(companies[i], r.data[1], ord)
                      IN  /\ companies' = [companies EXCEPT ![i] = m.rec]
                          /\ outcomes' = Append(outcomes,
                                Outcome(IF m.raised THEN "raised" ELSE "merged", r, net))
                          /\ pc' = IF m.raised THEN "raised" ELSE after_append("merged")
                          /\ enriched' = IF m.raised THEN enriched
                                         ELSE appended(enriched, i, r.data)
    /\ UNCHANGED <<response, max_results, enrich, drafts0, result, email, password, sleeps>>
    /\ UNCHANGED <<mvars, xvars, dvars>>

\* Lines 525-527: time.sleep(1) closes the pass.
Sleep ==
    /\ pc = "sleep"
    /\ sleeps' = sleeps + 1
    /\ pc' = "lookup"
    /\ UNCHANGED <<response, max_results, enrich, companies, drafts0, enriched, idx,
                   result, email, password, session_file, cookies, is_logged_in,
                   premium, outcomes, requests>>
    /\ UNCHANGED <<mvars, xvars, dvars>>

\* Lines 529, 601-602: the loop is over, enriched is returned.
Return ==
    /\ pc = "lookup"
    /\ idx = Len(companies)
    /\ result' = enriched
    /\ pc' = "returned"
    /\ UNCHANGED <<response, max_results, enrich, companies, drafts0, enriched, idx,
                   email, password, session_file, cookies, is_logged_in, premium,
                   outcomes, requests, sleeps>>
    /\ UNCHANGED <<mvars, xvars, dvars>>

Next == Extract \/ Lookup \/ Sleep \/ Return

Spec == Init /\ [][Next]_vars

-----------------------------------------------------------------------------
(* Properties of a scrape_companies run, checked under Spec *)

IsNormalizedPhone(p) == p # <<>> /\ validate_russian_phone(p) = p

ContactsClean(rec) ==
    /\ \A k \in 1..Len(rec["phones"]) : IsNormalizedPhone(rec["phones"][k])
    /\ NoDup(rec["phones"])
    /\ \A k \in 1..Len(rec["emails"]) : Lower(rec["emails"][k]) = rec["emails"][k]
    /\ NoDup(rec["emails"])

\* C6: in every record of a run (the drafts, the registry record of the last
\* lookup, the records enrich has merged) phones holds only normalize_phone
\* outputs, emails only lowercase values, neither repeats a value, and a
\* merged record lists them in the order of first appearance.
C6_ContactsNormalizedDeduplicatedOrdered ==
    /\ \A k \in 1..Len(companies) : ContactsClean(companies[k])
    /\ \A k \in 1..Len(premium) : ContactsClean(premium[k])
    /\ (pc = "sleep" /\ outcomes[idx].lookup = "merged") =>
          \A f \in {"phones", "emails"} :
              companies[idx][f] = Dedup(drafts0[idx][f] \o premium[1][f])

NoData == {"invalid_inn", "search_failed", "not_found", "detail_failed"}

\* A pass raises only when the environment put a fault into it.
RaisesOnlyOnFault ==
    \A i \in 1..Len(outcomes) :
        outcomes[i].lookup = "raised" => outcomes[i].fault # "none"

C8_NoDataLeavesDraftUntouched ==
    \A i \in 1..Len(outcomes) :
        /\ outcomes[i].lookup \in {"search_failed", "not_found", "detail_failed"} =>
              /\ companies[i] = drafts0[i]
              /\ companies[i]["data_source"] = "agent"
              /\ i \in Range(enriched)
        /\ outcomes[i].fault = "none" => outcomes[i].lookup # "raised"

C8_Witness ==
    /\ pc = "returned"
    /\ Len(outcomes) = MaxDrafts
    /\ outcomes[1].lookup = "not_found"
    /\ outcomes[MaxDrafts].lookup = "detail_failed"
    /\ companies[1]["data_source"] = "agent"
    /\ result = Refs(MaxDrafts)

\* C9: when the pass for one draft raises inside the session manager, the
\* extractor or the merge, enrich goes on: the draft is output unmodified and
\* the run does not end with the exception.
C9_RaiseInOnePassDoesNotEndEnrich ==
    /\ pc # "raised"
    /\ \A i \in 1..Len(outcomes) :
          outcomes[i].fault # "none" =>
              companies[i] = drafts0[i] /\ i \in Range(enriched)

\* C10: once a login() of the run has failed, no draft from the one in hand
\* onwards is merged with registry data: each is output with provenance
\* "agent", and the run does not abort.
C10_AuthFailureDisablesRegistry ==
    \A i, j \in 1..Len(outcomes) :
        (outcomes[i].login = "failed" /\ i <= j) =>
            /\ outcomes[j].lookup # "merged"
            /\ companies[j]["data_source"] = "agent"
            /\ outcomes[j].fault = "none" => outcomes[j].lookup # "raised"

\* The requests of the last pass that got no response.
FailedRequests == {k \in 1..Len(requests) : ~requests[k].ok}

\* C11: a network failure in a request of a pass (root page, credential
\* submission, search, detail page) is caught where it happens, makes the
\* lookup of that pass yield no data, so that its draft stays as it was, and
\* does not stop the loop: the later drafts are still looked up.
C11_NetworkFailureIsOneLookupMiss ==
    (idx > 0 /\ FailedRequests # {} /\ outcomes[idx].fault = "none") =>
        /\ pc # "raised"
        /\ outcomes[idx].lookup \in NoData
        /\ premium = <<>>
        /\ companies[idx] = drafts0[idx]

-----------------------------------------------------------------------------
(* SpecSession: one RusprofileParser, scraper.py:118-204 *)

MaxLogins == 2      \* login() calls per behaviour of SpecSession

IdleRun ==
    /\ response = <<>> /\ max_results = 0 /\ enrich = FALSE
    /\ companies = <<>> /\ drafts0 = <<>> /\ enriched = <<>> /\ idx = 0
    /\ result = <<>> /\ premium = <<>> /\ outcomes = <<>> /\ requests = <<>>
    /\ sleeps = 0

\* RUSPROFILE_EMAIL and RUSPROFILE_PASSWORD of the environment: both unset,
\* both set, the password missing.
Credentials ==
    {[email |-> "", password |-> ""],
     [email |-> "user@x", password |-> "secret"],
     [email |-> "user@x", password |-> ""]}

\* What SESSION_FILE can hold when the parser is constructed: nothing, bytes
\* pickle.load or the reads of lines 149-153 fail on, or a session saved by
\* this or another identity, its age in hours just under, at, or over the limit.
CorruptFile == [NoFile EXCEPT !.kind = "corrupt"]

SessionFiles ==
    {NoFile, CorruptFile}
    \cup {[kind |-> "session", email |-> e, age |-> a, cookies |-> "cached"] :
            e \in {"user@x", "other@x"},
            a \in {SESSION_MAX_AGE_HOURS - 1, SESSION_MAX_AGE_HOURS,
                   SESSION_MAX_AGE_HOURS + 1}}

\* The process has read its environment; no RusprofileParser exists yet.
InitSession ==
    /\ IdleMerge
    /\ IdleRun
    /\ ucall = NoApply
    /\ pc = "new"
    /\ \E cred \in Credentials : email = cred.email /\ password = cred.password
    /\ session_file \in SessionFiles
    /\ is_logged_in = FALSE
    /\ cookies = ""
    /\ last = NoCall
    /\ nlogins = 0
    /\ IdleStore

\* What is remembered of a call: its arguments, the state it found, and what
\* login() or _load_session gave.
Observed(op, force, lg, fault) ==
    [op |-> op, force |-> force, ok |-> lg.ok, raised |-> lg.raised,
     requests |-> lg.requests, save_called |-> lg.save_called, saved |-> lg.saved,
     fault |-> fault, logged_before |-> is_logged_in, cookies_before |-> cookies,
     file_before |-> session_file]

\* RusprofileParser(), lines 118-129: a fresh requests session, not logged
\* in, then _load_session.
Construct ==
    /\ pc = "new"
    /\ LET loaded == _load_session(session_file, email)
       IN  /\ is_logged_in' = loaded
           /\ cookies' = IF loaded THEN session_file.cookies ELSE ""
           /\ last' = Observed("init", FALSE, LoginReturn(loaded, loaded, <<>>), "none")
    /\ pc' = "ready"
    /\ UNCHANGED <<response, max_results, enrich, companies, drafts0, enriched, idx,
                   result, email, password, session_file, premium, outcomes,
                   requests, sleeps, nlogins, ucall>>
    /\ UNCHANGED <<mvars, dvars>>

\* parser.login(force), lines 169-204. A response with a logout marker leaves
\* the cookies of the new session in the cookie set.
Login ==
    /\ pc = "ready"
    /\ nlogins < MaxLogins
    /\ \E force \in BOOLEAN, net \in LoginAnswers :
        LET lg == login(force, is_logged_in, email, password, net)
            jar == IF lg.ok /\ lg.requests # <<>> THEN "fresh" ELSE cookies
        IN  /\ is_logged_in' = lg.logged
            /\ cookies' = jar
            /\ session_file' = IF lg.saved THEN _save_session(email, jar) ELSE session_file
            /\ last' = Observed("login", force, lg, net.fault)
    /\ nlogins' = nlogins + 1
    /\ UNCHANGED <<response, max_results, enrich, companies, drafts0, enriched, idx,
                   pc, result, email, password, premium, outcomes, requests, sleeps,
                   ucall>>
    /\ UNCHANGED <<mvars, dvars>>

\* What is remembered of a get_premium_data call: as for login(), and the
\* answers of the site, how the lookup ended, the record it returned and the
\* requests it made after login() had returned.
Looked(r, net) ==
    [op |-> "lookup", force |-> FALSE, ok |-> r.login.ok, raised |-> r.raised,
     requests |-> r.requests, save_called |-> r.login.save_called,
     saved |-> r.login.saved, fault |-> net.fault, logged_before |-> is_logged_in,
     cookies_before |-> cookies, file_before |-> session_file,
     net |-> net, how |-> r.how, data |-> r.data,
     fetches |-> SubSeq(r.requests, Len(r.login.requests) + 1, Len(r.requests))]

\* parser.get_premium_data(inn) for a valid tax id, lines 206-237.
GetPremiumData ==
    /\ pc = "ready"
    /\ nlogins < MaxLogins
    /\ \E net \in Nets(is_logged_in, email, password) :
        LET r == get_premium_data(Inn10, is_logged_in, email, password, net)
            jar == IF r.login.ok /\ r.login.requests # <<>> THEN "fresh" ELSE cookies
        IN  /\ is_logged_in' = r.login.logged
            /\ cookies' = jar
            /\ session_file' = IF r.login.saved THEN _save_session(email, jar)
                               ELSE session_file
            /\ last' = Looked(r, net)
    /\ nlogins' = nlogins + 1
    /\ UNCHANGED <<response, max_results, enrich, companies, drafts0, enriched, idx,
                   pc, result, email, password, premium, outcomes, requests, sleeps,
                   ucall>>
    /\ UNCHANGED <<mvars, dvars>>

\* Time passes: the session cache becomes older than SESSION_MAX_AGE_HOURS.
Expire ==
    /\ pc = "ready"
    /\ session_file.kind = "session" /\ session_file.age <= SESSION_MAX_AGE_HOURS
    /\ session_file' = [session_file EXCEPT !.age = SESSION_MAX_AGE_HOURS + 1]
    /\ last' = [op |-> "time"]
    /\ UNCHANGED <<response, max_results, enrich, companies, drafts0, enriched, idx,
                   pc, result, email, password, cookies, is_logged_in, premium,
                   outcomes, requests, sleeps, nlogins, ucall>>
    /\ UNCHANGED <<mvars, dvars>>

\* Another RusprofileParser of the same identity logs in and runs
\* _save_session, lines 131-141: SESSION_FILE now holds its session.
CacheWritten ==
    /\ pc = "ready"
    /\ email # ""
    /\ ~_load_session(session_file, email)
    /\ session_file' = _save_session(email, "cached")
    /\ last' = [op |-> "written"]
    /\ UNCHANGED <<response, max_results, enrich, companies, drafts0, enriched, idx,
                   pc, result, email, password, cookies, is_logged_in, premium,
                   outcomes, requests, sleeps, nlogins, ucall>>
    /\ UNCHANGED <<mvars, dvars>>

NextSession == Construct \/ Login \/ GetPremiumData \/ Expire \/ CacheWritten

SpecSession == InitSession /\ [][NextSession]_vars

-----------------------------------------------------------------------------
(* Properties of the session manager, checked under SpecSession *)

\* A cached session that is at or over the age limit, or that another
\* identity saved.
Stale(file, em) ==
    /\ file.kind = "session"
    /\ file.age >= SESSION_MAX_AGE_HOURS \/ file.email # em

\* A login() call that returned at lines 170-171 without authenticating.
EarlyReturn(call) == call.op = "login" /\ call.ok /\ call.requests = <<>>

\* C13: a cached session whose age is not under 128 hours, or whose stored
\* identity is not the configured one, is not restored: its cookies are not
\* loaded, the parser is not logged in, and the first login() after it
\* authenticates interactively instead of returning at once.
C13_StaleOrForeignSessionNeverReused ==
    /\ (last.op = "init" /\ Stale(last.file_before, email)) =>
          ~is_logged_in /\ cookies = ""
    /\ (last.op = "login" /\ nlogins = 1 /\ Stale(last.file_before, email)) =>
          ~EarlyReturn(last)

\* C14: login() on a logged-in parser with force false returns True and does
\* nothing: no request, the cookie set, is_logged_in and the session cache
\* as they were, _save_session not called.
C14_LoggedInLoginIsNoOp ==
    (last.op = "login" /\ last.logged_before /\ ~last.force) =>
        /\ last.ok /\ ~last.raised
        /\ last.requests = <<>>
        /\ cookies = last.cookies_before
        /\ is_logged_in
        /\ ~last.save_called
        /\ session_file = last.file_before

C14_Witness ==
    /\ last.op = "login" /\ last.logged_before /\ ~last.force
    /\ nlogins = MaxLogins
    /\ last.ok
    /\ cookies = "fresh"

\* A login() call that authenticated interactively and succeeded.
Authenticated(call) == call.op = "login" /\ call.ok /\ call.requests # <<>>

C16_FailedLoginLeavesNoSession ==
    (last.op = "login" /\ ~EarlyReturn(last) /\ ~Authenticated(last)
        /\ last.fault = "none") =>
        /\ ~last.ok
        /\ ~last.raised
        /\ ~is_logged_in

-----------------------------------------------------------------------------
(* SpecUtils: the pure functions applied to strings and responses *)

MaxInnLen == 13     \* longest string given to validate_inn

\* Strings of digits and dashes.
InnInputs == SeqsUpTo({"7", "-"}, MaxInnLen)

\* Digits 3 to 12 of a phone number, as far as needed.
PhoneBody == <<"4", "6", "1", "2", "3", "4", "5", "6", "7", "0">>

\* Phone-like strings: with or without "+", a first digit, an optional
\* separator, a second digit, 8 to 10 more digits (10 to 12 in all), an
\* optional trailing dash; and the strings of section 8 of the spec.
PhoneInputs ==
    {lead \o <<first>> \o sep \o <<second>> \o SubSeq(PhoneBody, 1, n) \o trail :
        lead \in {<<>>, <<"+">>}, first \in {"7", "8", "9"},
        sep \in {<<>>, <<" ", "(">>}, second \in {"1", "3", "9"},
        n \in 8..10, trail \in {<<>>, <<"-">>}}
    \cup {<<>>, RawPhoneShort, RawPhoneTrunk, RawPhonePlus, RawPhoneOther}

MaxPieces == 3      \* pieces a text given to extract_phones_from_text is made of

\* Pieces of text: "8 ", a bare mobile number, a bare city number after a
\* space, a number grouped with dashes, one with brackets, a word.
TextPieces ==
    {<<"8", " ">>,
     <<"7", "9", "1", "2", "3", "4", "5", "6", "7", "8", "9">>,
     <<" ", "8", "4", "9", "5", "1", "2", "3", "4", "5", "6", "7">>,
     <<"8", "-", "8", "4", "6", "-", "1", "2", "3", "-", "4", "5", "-", "6", "7">>,
     <<" ", "+", "7", "(", "8", "4", "6", ")", "9", "8", "7", "-", "6", "5", "-", "4", "3">>,
     <<"t", "e", "l", ".", " ">>}

RECURSIVE Concat(_)
Concat(ss) == IF ss = <<>> THEN <<>> ELSE ss[1] \o Concat(Tail(ss))

PhoneTexts == {Concat(ps) : ps \in SeqsUpTo(TextPieces, MaxPieces)}

MaxNameLen == 4     \* longest string given to clean_company_name

\* Names of letters, spaces and the two quote characters.
NameInputs == SeqsUpTo({"A", " ", "\"", "'"}, MaxNameLen)

\* What re.search of the year-qualified and of the generic revenue pattern can
\* give on one text: the generic pattern matches wherever the year-qualified
\* one does, with a group 1 of its own.
RevenueMatches ==
    {m \in [year : {<<>>, <<"">>, <<"12 500 tys. rub">>},
            plain : {<<>>, <<"">>, <<"9 mln rub">>}] : m.year # <<>> => m.plain # <<>>}

\* Company pages by their status markers and revenue lines.
PageDocs ==
    {[NoDoc EXCEPT !.active = a, !.liquidated = l,
                   !.revenue_year = m.year, !.revenue_plain = m.plain] :
        a \in BOOLEAN, l \in BOOLEAN, m \in RevenueMatches}

Pending(fn, arg) ==
    [fn |-> fn, arg |-> arg, done |-> FALSE, out |-> <<>>, again |-> <<>>, trace |-> <<>>]

\* A function and its argument have been chosen; it has not been called yet.
InitUtils ==
    /\ IdleMerge
    /\ IdleRun
    /\ pc = "idle" /\ email = "" /\ password = "" /\ session_file = <<>>
    /\ cookies = "" /\ is_logged_in = FALSE
    /\ last = NoCall /\ nlogins = 0 /\ IdleStore
    /\ ucall \in {Pending("validate_inn", a) : a \in InnInputs}
            \cup {Pending("validate_russian_phone", a) : a \in PhoneInputs}
            \cup {Pending("extract_companies_from_response", a) : a \in ResponsePool}
            \cup {Pending("extract_phones_from_text", a) : a \in PhoneTexts}
            \cup {Pending("clean_company_name", a) : a \in NameInputs}
            \cup {Pending("_parse_premium_fields", a) : a \in PageDocs}

\* utils.validate_inn(arg)
ApplyValidateInn ==
    /\ ucall.fn = "validate_inn" /\ ~ucall.done
    /\ ucall' = [ucall EXCEPT !.done = TRUE, !.out = validate_inn(ucall.arg)]
    /\ UNCHANGED <<mvars, pvars, dvars, last, nlogins>>

\* utils.validate_russian_phone(arg) and, when it gives a phone, the
\* function applied to that phone again.
ApplyValidatePhone ==
    /\ ucall.fn = "validate_russian_phone" /\ ~ucall.done
    /\ LET out == validate_russian_phone(ucall.arg)
       IN  ucall' = [ucall EXCEPT !.done = TRUE, !.out = out,
                                  !.again = validate_russian_phone(out)]
    /\ UNCHANGED <<mvars, pvars, dvars, last, nlogins>>

\* CompanyFinderAgent.extract_companies_from_response(arg)
ApplyExtract ==
    /\ ucall.fn = "extract_companies_from_response" /\ ~ucall.done
    /\ ucall' = [ucall EXCEPT !.done = TRUE,
                              !.out = extract_companies_from_response(ucall.arg)]
    /\ UNCHANGED <<mvars, pvars, dvars, last, nlogins>>

\* utils.extract_phones_from_text(arg)
ApplyExtractPhones ==
    /\ ucall.fn = "extract_phones_from_text" /\ ~ucall.done
    /\ ucall' = [ucall EXCEPT !.done = TRUE,
                              !.out = extract_phones_from_text(PhoneMatches(ucall.arg))]
    /\ UNCHANGED <<mvars, pvars, dvars, last, nlogins>>

\* utils.clean_company_name(arg), and the function applied to its result.
ApplyCleanName ==
    /\ ucall.fn = "clean_company_name" /\ ~ucall.done
    /\ LET out == clean_company_name(ucall.arg)
       IN  ucall' = [ucall EXCEPT !.done = TRUE, !.out = out,
                                  !.again = clean_company_name(out)]
    /\ UNCHANGED <<mvars, pvars, dvars, last, nlogins>>

\* RusprofilePremiumParser._parse_premium_fields(arg, url); trace keeps the
\* revenue patterns it searched.
ApplyParse ==
    /\ ucall.fn = "_parse_premium_fields" /\ ~ucall.done
    /\ ucall' = [ucall EXCEPT !.done = TRUE,
                              !.out = _parse_premium_fields(ucall.arg, DetailUrl),
                              !.trace = revenue_rule(ucall.arg).consulted]
    /\ UNCHANGED <<mvars, pvars, dvars, last, nlogins>>

NextUtils ==
    \/ ApplyValidateInn \/ ApplyValidatePhone \/ ApplyExtract
    \/ ApplyExtractPhones \/ ApplyCleanName \/ ApplyParse

SpecUtils == InitUtils /\ [][NextUtils]_vars

-----------------------------------------------------------------------------
(* SpecStore: the companies table, database.py:86-108, 196-238, 303-308 *)

\* Column and key names the source writes in Cyrillic are transliterated and
\* written in capitals; 'email' and the English keys are as in the source.
\* NULL and None are <<>>, a value v is <<v>>. A company dict is a function
\* from the keys it has to such values.

MaxUpserts == 3     \* upsert_company calls per behaviour of SpecStore

\* The columns the statement of upsert_company writes, lines 201-203.
Columns ==
    {"NAZVANIE_KOMPANII", "TELEFON", "email", "ADRES", "GOROD", "RASSTOYANIE_KM",
     "KOLCO", "KATEGORIYA", "SAYT", "ISTOCHNIK", "INN", "OGRN", "OBOROT",
     "PRIORITET", "OKVED"}

\* Keys whose values are sequences of characters, and keys whose values are
\* integers; the values of the other keys are strings.
CharKeys == {"NAZVANIE_KOMPANII", "name", "TELEFON", "phone", "email", "INN", "inn"}
IntKeys == {"RASSTOYANIE_KM", "KOLCO", "ring", "OBOROT", "revenue"}

\* Python truthiness of a value under a key: None, '' and 0 are falsy.
Falsy(key, v) ==
    v = <<>> \/ v[1] = (IF key \in CharKeys THEN <<>> ELSE IF key \in IntKeys THEN 0 ELSE "")

\* company.get(key) or company.get(alias)
GetOr(company, key, alias) ==
    IF Falsy(key, Get(company, key, <<>>)) THEN Get(company, alias, <<>>) ELSE company[key]

\* The parameters of the statement, lines 221-237.
Parameters(company) ==
    [c \in Columns |->
        CASE c = "NAZVANIE_KOMPANII" -> GetOr(company, c, "name")
          [] c = "TELEFON" -> GetOr(company, c, "phone")
          [] c = "email" -> Get(company, c, <<>>)
          [] c = "ADRES" -> GetOr(company, c, "address")
          [] c = "GOROD" -> GetOr(company, c, "city")
          [] c = "RASSTOYANIE_KM" -> Get(company, c, <<>>)
          [] c = "KOLCO" -> GetOr(company, c, "ring")
          [] c = "KATEGORIYA" -> GetOr(company, c, "category")
          [] c = "SAYT" -> GetOr(company, c, "website")
          [] c = "ISTOCHNIK" -> IF ~Falsy(c, Get(company, c, <<>>)) THEN company[c]
                                ELSE Get(company, "source", <<"rusprofile.ru">>)
          [] c = "INN" -> GetOr(company, c, "inn")
          [] c = "OGRN" -> GetOr(company, c, "ogrn")
          [] c = "OBOROT" -> GetOr(company, c, "revenue")
          [] c = "PRIORITET" -> GetOr(company, c, "priority")
          [] c = "OKVED" -> GetOr(company, c, "okved")]

\* The columns DO UPDATE sets to COALESCE(EXCLUDED.c, companies.c), lines 210-215.
Coalesced == {"TELEFON", "email", "ADRES", "GOROD", "SAYT", "OBOROT"}

\* ON CONFLICT DO UPDATE SET, lines 208-216: the new value of column c of the
\* row in conflict.
DoUpdate(c, excluded, stored) ==
    IF c = "NAZVANIE_KOMPANII" THEN excluded
    ELSE IF c \in Coalesced THEN (IF excluded # <<>> THEN excluded ELSE stored)
    ELSE stored

\* A faulty table: the tax id column is not declared UNIQUE.
Conflict_not_unique(tbl, params) == {}

\* The rows in conflict with a new row under the UNIQUE constraint of the tax
\* id column, line 99: NULL conflicts with nothing.
Conflict(tbl, params) ==
    {row \in tbl : params["INN"] # <<>> /\ row.cols["INN"] = params["INN"]}

\* upsert_company, lines 196-238, on the table tbl with ser the next value of
\* the id sequence: the table afterwards and the id returned.
upsert_company(tbl, ser, company) ==
    LET params == Parameters(company)
        hit == Conflict(tbl, params)
    IN  IF hit = {}
        THEN [table |-> tbl \cup {[id |-> ser, cols |-> params]}, id |-> ser]
        ELSE LET old == CHOOSE row \in hit : TRUE
                 new == [id |-> old.id,
                         cols |-> [c \in Columns |-> DoUpdate(c, params[c], old.cols[c])]]
             IN  [table |-> (tbl \ {old}) \cup {new}, id |-> old.id]

\* delete_company, lines 303-308.
delete_company(tbl, company_id) == {row \in tbl : row.id # company_id}

\* int(re.sub(r'\D', '', revenue) or '0'), main.py:442, on the revenue
\* strings of the model.
RevenueDigits(revenue) ==
    CASE revenue = "12 500 tys. rub" -> 12500
      [] revenue = "9 mln rub" -> 9
      [] OTHER -> 0

\* The dict the search flow builds from a pipeline record, main.py:432-445.
company_data(company, request) ==
    [NAZVANIE_KOMPANII |-> <<company["short_name"]>>,
     TELEFON |-> IF company["phones"] # <<>> THEN <<company["phones"][1]>> ELSE <<>>,
     email |-> IF company["emails"] # <<>> THEN <<company["emails"][1]>> ELSE <<>>,
     ADRES |-> <<company["legal_address"]>>,
     GOROD |-> IF ~Falsy("city", request.city) THEN request.city
               ELSE <<company["region"]>>,
     KOLCO |-> request.ring,
     SAYT |-> <<company["website"]>>,
     ISTOCHNIK |-> <<"web_scraper">>,
     INN |-> <<company["inn"]>>,
     OGRN |-> <<company["ogrn"]>>,
     OBOROT |-> IF company["revenue"] # "" THEN <<RevenueDigits(company["revenue"])>>
                ELSE <<>>,
     OKVED |-> <<company["okved_main"]>>]

\* Records the pipeline outputs: a draft no lookup enriched, the same draft
\* merged with its registry page, and a draft with contacts of its own.
PipelineRecords ==
    LET bare == DraftOf(CompBare)
        page == _parse_premium_fields(DocCompany, DetailUrl)
        ord == CHOOSE o \in UnionOrders(bare, page) : TRUE
    IN  {bare, merge_with(bare, page, ord).rec, DraftOf(CompRich)}

\* SearchRequest.city and .ring, main.py:141-143.
SearchRequests ==
    {[city |-> <<>>, ring |-> <<>>], [city |-> <<"Samara">>, ring |-> <<1>>]}

\* CompanyCreate.model_dump(), main.py:110-138, 344: every key, None unless set.
CreateDumps ==
    LET keys == Columns \cup {"name", "phone", "address", "city", "ring", "category",
                              "website", "source", "inn", "ogrn", "revenue",
                              "priority", "okved"}
        none == [k \in keys |-> <<>>]
    IN  {none,
         [none EXCEPT !["inn"] = <<Inn12>>, !["name"] = <<<<"B">>>>, !["email"] = <<<<>>>>]}

UpsertArgs ==
    {company_data(c, r) : c \in PipelineRecords, r \in SearchRequests} \cup CreateDumps

InitStore ==
    /\ IdleMerge
    /\ IdlePipeline
    /\ IdleExtra

\* db.upsert_company(company). The id sequence advances whether the row is
\* inserted or the row in conflict is updated.
Upsert ==
    /\ serial <= MaxUpserts
    /\ \E company \in UpsertArgs :
        LET r == upsert_company(table, serial, company)
        IN  /\ table' = r.table
            /\ last' = [op |-> "upsert", company |-> company, id |-> r.id,
                        table_before |-> table]
    /\ serial' = serial + 1
    /\ UNCHANGED <<mvars, pvars, nlogins, ucall>>

\* db.delete_company(company_id)
Delete ==
    /\ \E company_id \in 1..MaxUpserts :
        /\ table' = delete_company(table, company_id)
        /\ last' = [op |-> "delete", id |-> company_id, table_before |-> table]
    /\ UNCHANGED <<mvars, pvars, nlogins, ucall, serial>>

NextStore == Upsert \/ Delete

SpecStore == InitStore /\ [][NextStore]_vars

-----------------------------------------------------------------------------
(* Properties of the pure functions, checked under SpecUtils *)

Called(fn) == ucall.fn = fn /\ ucall.done

\* The number of decimal digits in a string.
DigitCount(s) == Cardinality({k \in 1..Len(s) : s[k] \in Digits})

\* The tax ids of the candidates of a response, in order: the 'inn' values of
\* the JSON candidates ('' when the key is missing), or the matches in the text.
CandidateInns(resp) ==
    IF resp.json = "ok"
    THEN [k \in 1..Len(resp.comps) |-> Get(resp.comps[k], "inn", <<>>)]
    ELSE resp.inn_matches

Inns(recs) == [k \in 1..Len(recs) |-> recs[k]["inn"]]

PassesRule(inn) == inn # <<>> /\ DigitCount(inn) \in {10, 12}

\* C17: every draft extract_companies_from_response returns has a tax id
\* that passes validate_inn, and the drafts are the candidates that pass,
\* the others being dropped: in order on the JSON path, once each on the
\* free-text path.
C17_OnlyValidTaxIdsAdmitted ==
    Called("extract_companies_from_response") =>
        /\ \A k \in 1..Len(ucall.out) :
              ucall.out[k]["inn"] # <<>> /\ validate_inn(ucall.out[k]["inn"])
        /\ Inns(ucall.out) =
              IF ucall.arg.json = "ok"
              THEN SelectSeq(CandidateInns(ucall.arg), PassesRule)
              ELSE Dedup(SelectSeq(CandidateInns(ucall.arg), PassesRule))

C17_Witness ==
    /\ Called("extract_companies_from_response")
    /\ ucall.arg.json = "ok"
    /\ ucall.arg.comps = <<CompBadInn, CompRich>>
    /\ Inns(ucall.out) = <<Inn10>>

\* C19: validate_inn(s) is true exactly when s has 10 or 12 decimal digits,
\* whatever else it has; so a string of exactly 10 or 12 digits passes and
\* the empty string does not.
C19_ValidIffTenOrTwelveDigits ==
    Called("validate_inn") => (ucall.out <=> DigitCount(ucall.arg) \in {10, 12})

C19_Witness ==
    /\ Called("validate_inn")
    /\ ucall.out
    /\ Len(ucall.arg) = 13
    /\ DigitCount(ucall.arg) = 12

\* C20: validate_russian_phone(s) gives a phone exactly when s has 11 digits,
\* the first 7 or 8 and the second one of 3..9; the phone is "+7" followed by
\* the last 10 digits, and the function maps it to itself.
C20_PhoneNormalForm ==
    Called("validate_russian_phone") =>
        LET digits == SelectSeq(ucall.arg, IsDigit)
            accepted == /\ Len(digits) = 11
                        /\ digits[1] \in {"7", "8"}
                        /\ digits[2] \in {"3", "4", "5", "6", "7", "8", "9"}
        IN  /\ ucall.out # <<>> <=> accepted
            /\ accepted => /\ ucall.out = <<"+", "7">> \o SubSeq(digits, 2, 11)
                           /\ ucall.again = ucall.out

C20_Witness ==
    /\ Called("validate_russian_phone")
    /\ ucall.arg = RawPhoneTrunk
    /\ ucall.out = Phone1
    /\ ucall.again = Phone1

-----------------------------------------------------------------------------
(* A property of the records of a run, checked under Spec *)

IsTaxId(s) == Len(s) \in {10, 12} /\ \A k \in 1..Len(s) : s[k] \in Digits

\* C18: in every record of a run (the drafts admitted, the registry record of
\* the last lookup, the records enrich has merged) inn is empty or is exactly
\* 10 or exactly 12 decimal digits and nothing else.
C18_TaxIdIsTenOrTwelveDigitsOnly ==
    /\ \A k \in 1..Len(drafts0) : drafts0[k]["inn"] = <<>> \/ IsTaxId(drafts0[k]["inn"])
    /\ \A k \in 1..Len(companies) :
          companies[k]["inn"] = <<>> \/ IsTaxId(companies[k]["inn"])
    /\ \A k \in 1..Len(premium) : premium[k]["inn"] = <<>> \/ IsTaxId(premium[k]["inn"])

-----------------------------------------------------------------------------
(* More properties of the pure functions, checked under SpecUtils *)

\* The matches of either pattern in a text, with their positions.
AllMatches(s) == Range(finditer("grouped", s, 1)) \cup Range(finditer("bare", s, 1))

\* Where the first match that normalizes to phone p starts.
FirstMatch(p, s) ==
    LET at == {m.pos : m \in {n \in AllMatches(s) : validate_russian_phone(n.str) = p}}
    IN  CHOOSE a \in at : \A b \in at : a <= b

\* C21: every entry of extract_phones_from_text(text) is the normalized form
\* of a match in the text, no entry occurs twice, and the entries come in
\* the order in which their first matches start in the text, whichever of
\* the two patterns found them.
C21_PhonesInDiscoveryOrder ==
    Called("extract_phones_from_text") =>
        /\ \A k \in 1..Len(ucall.out) :
              /\ ucall.out[k] # <<>>
              /\ \E m \in AllMatches(ucall.arg) : validate_russian_phone(m.str) = ucall.out[k]
        /\ NoDup(ucall.out)
        /\ \A a, b \in 1..Len(ucall.out) :
              a < b => FirstMatch(ucall.out[a], ucall.arg) < FirstMatch(ucall.out[b], ucall.arg)

\* C22: clean_company_name(s) has no quote character, no whitespace at
\* either end and no two whitespace characters in a row, so that cleaning it
\* again changes nothing.
C22_CleanNameIsClean ==
    Called("clean_company_name") =>
        LET out == ucall.out
        IN  /\ \A k \in 1..Len(out) : out[k] \notin {"\"", "'"}
            /\ out # <<>> => out[1] \notin Whitespace /\ out[Len(out)] \notin Whitespace
            /\ \A k \in 1..(Len(out) - 1) : ~(out[k] \in Whitespace /\ out[k + 1] \in Whitespace)
            /\ ucall.again = out

\* C23 (as amended): when the year-qualified revenue pattern matches with a
\* group that is not blank, the revenue is that group and the generic pattern
\* is not searched; otherwise both patterns are searched and the revenue is
\* the generic pattern's group when that is not blank, and stays empty if not.
C23_YearRevenueWinsWhenNotBlank ==
    Called("_parse_premium_fields") =>
        LET year == ucall.arg.revenue_year
            plain == ucall.arg.revenue_plain
        IN  IF NotBlank(year)
            THEN ucall.out.revenue = year[1] /\ ucall.trace = <<"year">>
            ELSE /\ ucall.trace = <<"year", "plain">>
                 /\ ucall.out.revenue = (IF NotBlank(plain) THEN plain[1] ELSE "")

\* Both patterns match with different amounts and the year-qualified one is stored.
C23_Witness ==
    /\ Called("_parse_premium_fields")
    /\ NotBlank(ucall.arg.revenue_year) /\ NotBlank(ucall.arg.revenue_plain)
    /\ ucall.arg.revenue_year # ucall.arg.revenue_plain
    /\ ucall.out.revenue = ucall.arg.revenue_year[1]

\* C23 (as stated): the year-qualified pattern wins whenever it matches, and
\* the generic pattern is then not searched; the generic pattern gives the
\* revenue only when the year-qualified one does not match.
C23_YearRevenueWinsWheneverItMatches ==
    Called("_parse_premium_fields") =>
        LET year == ucall.arg.revenue_year
            plain == ucall.arg.revenue_plain
        IN  IF year # <<>>
            THEN ucall.out.revenue = year[1] /\ ucall.trace = <<"year">>
            ELSE ucall.out.revenue = (IF NotBlank(plain) THEN plain[1] ELSE "")

\* C29: the status is "active" whenever the active marker occurs in the page
\* text, also next to the liquidated marker; "liquidated" when only that
\* marker occurs; empty when neither does.
C29_ActiveMarkerWins ==
    Called("_parse_premium_fields") =>
        ucall.out.status = (IF ucall.arg.active THEN "Deystvuyushchaya"
                            ELSE IF ucall.arg.liquidated THEN "Likvidirovana"
                            ELSE "")

\* A page with both markers was parsed as active.
C29_Witness ==
    /\ Called("_parse_premium_fields")
    /\ ucall.arg.active /\ ucall.arg.liquidated
    /\ ucall.out.status = "Deystvuyushchaya"

-----------------------------------------------------------------------------
(* More properties of enrich_with_rusprofile, checked under Spec *)

\* C26: every phone and every email a draft held before enrichment is in its
\* record afterwards, and its tax id and every other non-empty scalar of the
\* draft except the provenance are unchanged, whatever the registry page
\* holds, a page of another company included.
C26_EnrichKeepsWhatTheDraftHeld ==
    \A i \in 1..Len(companies) :
        /\ Range(drafts0[i]["phones"]) \subseteq Range(companies[i]["phones"])
        /\ Range(drafts0[i]["emails"]) \subseteq Range(companies[i]["emails"])
        /\ \A f \in ScalarFields \ {"data_source"} :
              Truthy(f, drafts0[i][f]) => companies[i][f] = drafts0[i][f]

\* A draft with contacts was merged with the page of a company with another
\* tax id and other contacts, and was output with its own tax id.
C26_Witness ==
    /\ pc = "sleep" /\ outcomes[idx].lookup = "merged" /\ idx \in Range(enriched)
    /\ drafts0[idx]["phones"] # <<>> /\ drafts0[idx]["emails"] # <<>>
    /\ premium[1]["inn"] # drafts0[idx]["inn"]
    /\ ~(Range(premium[1]["phones"]) \subseteq Range(drafts0[idx]["phones"]))
    /\ ~(Range(premium[1]["emails"]) \subseteq Range(drafts0[idx]["emails"]))
    /\ companies[idx]["inn"] = drafts0[idx]["inn"]

-----------------------------------------------------------------------------
(* More properties of the session manager, checked under SpecSession *)

\* A login() call that is not the no-op of lines 170-171.
NotNoOp(call) == call.op = "login" /\ ~(call.logged_before /\ ~call.force)

\* C27: a login() call that is not the no-op first restores the session cache
\* and authenticates interactively only if that fails: with a valid cache
\* written before the call it makes no request, returns True, and leaves the
\* parser logged in with the cached cookies.
C27_RestoreBeforeAuthenticating ==
    (NotNoOp(last) /\ _load_session(last.file_before, email)) =>
        /\ last.requests = <<>>
        /\ last.ok /\ is_logged_in
        /\ cookies = last.file_before.cookies

\* The search and company page requests of a lookup.
SearchOnly == <<Req("search", TRUE)>>
SearchThenDetail(ok) == <<Req("search", TRUE), Req("detail", ok)>>

C30_LoggedInIsMonotonic == [][is_logged_in => is_logged_in']_vars

\* A forced login() has failed on a logged-in parser whose session cache is
\* over the age limit, and the parser is still logged in.
C30_Witness ==
    /\ last.op = "login" /\ last.force /\ ~last.ok /\ last.requests # <<>>
    /\ last.logged_before
    /\ last.file_before.kind = "session"
    /\ last.file_before.age > SESSION_MAX_AGE_HOURS
    /\ is_logged_in

-----------------------------------------------------------------------------
(* Properties of the companies table, checked under SpecStore *)

\* The tax id of a company dict, <<>> when it has none.
TaxIdOf(company) ==
    IF ~Falsy("INN", Get(company, "INN", <<>>)) THEN company["INN"]
    ELSE IF ~Falsy("inn", Get(company, "inn", <<>>)) THEN company["inn"]
    ELSE <<>>

\* The key a column's value can also be given under, "" if there is none.
AliasOf(c) ==
    CASE c = "NAZVANIE_KOMPANII" -> "name" [] c = "TELEFON" -> "phone"
      [] c = "ADRES" -> "address" [] c = "GOROD" -> "city" [] c = "KOLCO" -> "ring"
      [] c = "KATEGORIYA" -> "category" [] c = "SAYT" -> "website"
      [] c = "ISTOCHNIK" -> "source" [] c = "INN" -> "inn" [] c = "OGRN" -> "ogrn"
      [] c = "OBOROT" -> "revenue" [] c = "PRIORITET" -> "priority"
      [] c = "OKVED" -> "okved" [] OTHER -> ""

\* Absent, None or the empty string.
Blank(key, v) ==
    v = <<>> \/ (key \notin IntKeys /\ v[1] = (IF key \in CharKeys THEN <<>> ELSE ""))

\* A company dict carries no value for a column.
NoValue(company, c) ==
    /\ Blank(c, Get(company, c, <<>>))
    /\ AliasOf(c) # "" => Blank(AliasOf(c), Get(company, AliasOf(c), <<>>))

\* The stored rows with the tax id of the record an upsert was called with.
Existing(call) ==
    {row \in call.table_before :
        TaxIdOf(call.company) # <<>> /\ row.cols["INN"] = TaxIdOf(call.company)}

\* C24: after an upsert for a tax id that has a stored row, every column for
\* which the new record carries no value (absent, None or '') holds the value
\* the row had before.
C24_UpsertKeepsFieldsWithoutNewValue ==
    last.op = "upsert" =>
        \A old \in Existing(last) :
            \E new \in table :
                /\ new.id = old.id
                /\ \A c \in Columns :
                      NoValue(last.company, c) => new.cols[c] = old.cols[c]

\* C25: the table never holds two rows with one tax id, and an upsert for a
\* tax id that has a row changes that row, adds none and returns its id.
C25_OneRowPerTaxId ==
    /\ \A r1, r2 \in table :
          (r1.cols["INN"] # <<>> /\ r1.cols["INN"] = r2.cols["INN"]) => r1 = r2
    /\ last.op = "upsert" =>
          \A old \in Existing(last) :
              /\ last.id = old.id
              /\ Cardinality(table) = Cardinality(last.table_before)
              /\ \E new \in table : new.id = old.id /\ new.cols["INN"] = old.cols["INN"]

\* An upsert met a row with its tax id, among two rows, changed it and
\* returned its id.
C25_Witness ==
    /\ last.op = "upsert"
    /\ Cardinality(last.table_before) = 2
    /\ \E old \in Existing(last) :
          /\ last.id = old.id
          /\ old \notin table
          /\ \E new \in table : new.id = old.id

====
